---- MODULE Spec2Model ----
(***************************************************************************)
(* Indexing and retrieval pipeline of the Code-RAG assistant.              *)
(*                                                                         *)
(*   src/app/rag_utils.py       FileScanner, TextChunker                   *)
(*   src/app/views_api.py       ProjectViewSet._index_project_files,       *)
(*                              ChatSessionViewSet._get_context_for_query, *)
(*                              ChatSessionViewSet._get_context_by_keywords*)
(*   src/app/ollama_service.py  OllamaService.get_embedding,               *)
(*                              VectorStore._cosine_similarity             *)
(*   src/app/models.py          Project, FileIndex, TextChunk              *)
(*                                                                         *)
(* The database runs in autocommit mode (settings.py sets no               *)
(* ATOMIC_REQUESTS and the views open no transaction), so every ORM call   *)
(* is one atomic step and the steps of concurrent requests interleave.     *)
(*                                                                         *)
(* Specifications:                                                         *)
(*   Spec          one reindex request at a time, a changing folder        *)
(*   SpecRead      one reindex request at a time and a concurrent          *)
(*                 retrieval listing the project's chunks                  *)
(*   SpecConc      two reindex requests of the same project, interleaved   *)
(*   SpecRetrieve  one retrieval over a stored chunk list                  *)
(*   SpecScan      two scans of one unchanged tree, file name by file name *)
(*   SpecChunk     one call of TextChunker on a text                       *)
(***************************************************************************)
EXTENDS Integers, Sequences, FiniteSets, TLC

(***************************************************************************)
(* Bounds of the model                                                     *)
(***************************************************************************)
\* a file content chunks into 1..MaxChunks chunks
MaxChunks == 2
\* reindex requests issued in one behaviour
MaxRuns == 2
\* storage write errors raised by the database in one behaviour
MaxFaults == 1
\* chunks stored for the project a retrieval runs over
MaxStored == 3
\* largest top_k a retrieval is called with
MaxTopK == 2
\* files in the root directory of a scanned tree
MaxDirFiles == 2
\* lines of a text handed to the chunker
MaxLines == 3
\* text frames received on the chat connection
MaxReceived == 2

(***************************************************************************)
(* Program constants                                                       *)
(***************************************************************************)
MAX_FILES_PER_PROJECT == 1000
MAX_FILE_SIZE_MB == 10
\* RAG_CONFIG['CHUNK_SIZE'], RAG_CONFIG['CHUNK_OVERLAP']
CHUNK_SIZE == 1000
CHUNK_OVERLAP == 100
\* a semantic chunk is kept when its stripped text is longer than this
TINY_CHUNK_LEN == 50

Workers == {1, 2}

Range(s) == {s[j] : j \in 1..Len(s)}

(***************************************************************************)
(* The project folder.  A file content is a number c: c >= 1 stands for a  *)
(* text that TextChunker.chunk_text splits into c chunks, ReadErrorText    *)
(* for the string read_file_content returns when it cannot read the file.  *)
(* A size is in MB.                                                        *)
(***************************************************************************)
ReadErrorText == 0

Texts == 1..MaxChunks

File(name, ext, content, size) ==
    [name |-> name, extension |-> ext, content |-> content, size |-> size]

\* the folder's entries in the order os.walk enumerates them
Listings ==
    {<<>>}
    \cup {<<File("a.py", ".py", c, 1)>> : c \in Texts}
    \cup {<<File("a.py", ".py", c, 1), File("c.png", ".png", 1, 1),
            File("b.md", ".md", d, 1)>> : c \in Texts, d \in {1}}
    \cup {<<File("big.md", ".md", 1, 11), File("b.md", ".md", 1, 1)>>}

Folders ==
    {[exists |-> FALSE, entries |-> <<>>]}
    \cup {[exists |-> TRUE, entries |-> e] : e \in Listings}

EXCLUDED_EXTENSIONS == {".jpg", ".png", ".zip", ".exe", ".pyc", "node_modules"}

\* FILE_WATCH_EXTENSIONS is None: everything is allowed but the excluded
is_file_allowed(f) ==
    /\ f.extension \notin EXCLUDED_EXTENSIONS
    /\ f.name \notin EXCLUDED_EXTENSIONS

get_file_hash(content) == <<"sha256", content>>

file_info(f) ==
    [relative_path |-> f.name, name |-> f.name, extension |-> f.extension,
     size |-> f.size, hash |-> get_file_hash(f.content)]

RECURSIVE walk(_, _)
\* the loop of get_files_from_folder over the entries, acc the list so far
walk(entries, acc) ==
    IF entries = <<>> \/ Len(acc) >= MAX_FILES_PER_PROJECT THEN acc
    ELSE LET f == Head(entries) IN
         IF is_file_allowed(f) /\ f.size <= MAX_FILE_SIZE_MB
         THEN walk(Tail(entries), Append(acc, file_info(f)))
         ELSE walk(Tail(entries), acc)

\* defined when the folder exists; the caller raises FileNotFoundError otherwise
get_files_from_folder(folder) == walk(folder.entries, <<>>)

\* the text read at index time: the file as it is now, or the error string
read_file_content(folder, path) ==
    LET hit == {j \in 1..Len(folder.entries) : folder.entries[j].name = path} IN
    IF folder.exists /\ hit # {}
    THEN folder.entries[CHOOSE j \in hit : TRUE].content
    ELSE ReadErrorText

\* the chunks chunk_text returns for a content, as (content, position) pairs
IndexChunks(content) ==
    [j \in 1..(IF content = ReadErrorText THEN 1 ELSE content) |-> <<content, j>>]

(***************************************************************************)
(* State                                                                   *)
(***************************************************************************)
VARIABLES
    fs,          \* the project's folder
    fileRows,    \* FileIndex rows of the project
    chunkRows,   \* TextChunk rows
    project,     \* the Project row: total_files, last_indexed
    nextId,      \* next FileIndex primary key
    runs,        \* reindex requests issued; also the clock of timezone.now()
    faults,      \* storage errors raised so far
    pc,          \* per request: where _index_project_files stands
    files,       \* per request: the scan result
    cur,         \* per request: index of the file being indexed
    file_index,  \* per request: primary key of the FileIndex just created
    chunks,      \* per request: chunks of the file being indexed
    idx,         \* per request: chunk_index of the next chunk to store
    file_count,  \* per request: files indexed so far
    \* history
    pre,         \* per request: stored view and project row when it started
    failed,      \* per request: paths whose indexing raised
    faulty,      \* per request: the database raised an error during it
    produced,    \* FileIndex id -> number of chunks the chunker produced
    dupRejected, \* a write was rejected by a unique constraint
    prevRun,     \* result of the previous completed reindex
    sameAsPrev,  \* the folder did not change between the previous scan and this one
    dirty,       \* the folder changed since the last scan
    observed,    \* the reader's last listing of the project's chunks
    \* retrieval
    rStored,     \* the project's chunks in the order the store lists them
    query,       \* the user's message
    top_k,       \* number of results asked for
    threshold,   \* similarity_threshold, a fraction <<numerator, denominator>>
    rpc,         \* where _get_context_for_query stands
    qemb,        \* the query embedding
    pos,         \* index of the next chunk to score
    results,     \* chunks kept so far
    result,      \* the list returned
    chunkCalls,  \* history: get_embedding calls made for chunks
    chunkFailed, \* history: a chunk's embedding or scoring failed
    lastSim      \* history: the cosine computed for the chunk just scored, or <<>>

idxVars == <<fs, fileRows, chunkRows, project, nextId, runs, faults, pc, files,
             cur, file_index, chunks, idx, file_count, pre, failed, faulty, produced,
             dupRejected, prevRun, sameAsPrev, dirty, observed>>

retVars == <<rStored, query, top_k, threshold, rpc, qemb, pos, results, result,
             chunkCalls, chunkFailed, lastSim>>

\* FileScanner.get_files_from_folder, one step per file name
VARIABLES
    scanCfg,     \* ALLOWED_EXTENSIONS and MAX_FILES of the scanner
    tree,        \* the directories os.walk visits, each the set of its files
    spc,         \* where get_files_from_folder stands
    scanNo,      \* 0: no scan yet, 1: first scan, 2: second scan
    dir,         \* index of the directory being walked
    filenames,   \* file names of the directory still to visit, as listed
    found,       \* the list `files` under construction
    count,       \* files appended so far
    \* history
    sized,       \* files os.path.getsize was called on in this scan
    hashed,      \* files get_file_hash was called on in this scan
    firstScan    \* what the first scan returned

scanVars == <<scanCfg, tree, spc, scanNo, dir, filenames, found, count, sized,
              hashed, firstScan>>

\* TextChunker
VARIABLES
    inText,      \* the text handed to the chunker
    inType,      \* the file type handed to chunk_text
    chunker,     \* the TextChunker: chunk_size, chunk_overlap
    cpc,         \* "start", then which method has returned
    out          \* the list of (chunk_text, start_line, end_line) returned

chunkVars == <<inText, inType, chunker, cpc, out>>

\* the chunking step of _index_project_files for two projects
VARIABLES
    rag_config,  \* per project: chunk_size and chunk_overlap of its RAGConfig
    pchunks,     \* per project: the chunks stored for the file
    pindexed     \* the projects whose file has been chunked

cfgVars == <<rag_config, pchunks, pindexed>>

\* create_project and delete_project
VARIABLES
    projectRow,  \* the Project row is stored
    configRow,   \* the project's RAGConfig row is stored
    sessionRows, \* ChatSession rows of the project
    kpc,         \* where create_project stands
    dpc,         \* where delete_project stands
    kruns        \* the value of runs when create_project reached its indexing

projVars == <<projectRow, configRow, sessionRows, kpc, dpc, kruns>>

\* ChatConsumer, one WebSocket connection on session 1
VARIABLES
    text_data,    \* the text frame being handled
    wspc,         \* where receive stands
    message_text, \* data.get('message', '').strip()
    response,     \* what _get_ai_response returned
    frames,       \* types of the frames sent for this message, in order
    calls,        \* calls of _get_ai_response for this message
    saved,       \* ChatMessage rows created for this message
    chatMessages, \* ChatMessage rows of the session
    received      \* text frames received so far

chatVars == <<text_data, wspc, message_text, response, frames, calls, saved,
              chatMessages, received>>

extVars == <<cfgVars, projVars, chatVars>>

utilVars == <<scanVars, chunkVars, extVars>>

vars == <<idxVars, retVars, utilVars>>

workerVars == <<pc, files, cur, file_index, chunks, idx, file_count>>

(***************************************************************************)
(* Views of the store                                                      *)
(***************************************************************************)
ChunksOfRow(id) ==
    {[chunk_index |-> c.chunk_index, content |-> c.content] :
        c \in {x \in chunkRows : x.file_index = id}}

\* what is stored for the project, primary keys left out
StoredView ==
    {[file_path |-> r.file_path, content_hash |-> r.content_hash,
      chunks |-> ChunksOfRow(r.id)] : r \in fileRows}

\* every chunk of a content, as stored by a complete indexing of it
AllChunks(content) ==
    {[chunk_index |-> j - 1, content |-> IndexChunks(content)[j]] :
        j \in 1..Len(IndexChunks(content))}

\* the complete set a scan result produces
NewView(scan) ==
    {[file_path |-> f.relative_path, content_hash |-> f.hash,
      chunks |-> AllChunks(f.hash[2])] : f \in Range(scan)}

NoRun == [valid |-> FALSE, file_count |-> 0, files |-> {}, clean |-> FALSE]

InitIndex ==
    /\ fs \in Folders
    /\ fileRows = {}
    /\ chunkRows = {}
    /\ project = [total_files |-> 0, last_indexed |-> 0]
    /\ nextId = 1
    /\ runs = 0
    /\ faults = 0
    /\ pc = [w \in Workers |-> "idle"]
    /\ files = [w \in Workers |-> <<>>]
    /\ cur = [w \in Workers |-> 0]
    /\ file_index = [w \in Workers |-> 0]
    /\ chunks = [w \in Workers |-> <<>>]
    /\ idx = [w \in Workers |-> 0]
    /\ file_count = [w \in Workers |-> 0]
    /\ pre = [w \in Workers |-> [view |-> {}, project |-> project, exists |-> TRUE]]
    /\ failed = [w \in Workers |-> {}]
    /\ faulty = [w \in Workers |-> FALSE]
    /\ produced = <<>>
    /\ dupRejected = FALSE
    /\ prevRun = NoRun
    /\ sameAsPrev = FALSE
    /\ dirty = FALSE
    /\ observed = {}

\* no retrieval is running
RetrieveIdle ==
    /\ rStored = <<>>
    /\ query = <<>>
    /\ top_k = 5
    /\ threshold = <<1, 2>>
    /\ rpc = "idle"
    /\ qemb = <<>>
    /\ pos = 0
    /\ results = <<>>
    /\ result = <<>>
    /\ chunkCalls = 0
    /\ chunkFailed = FALSE
    /\ lastSim = <<>>

\* no scan of the step-wise scanner is running
ScanIdle ==
    /\ scanCfg = [ALLOWED_EXTENSIONS |-> {}, none |-> TRUE,
                  MAX_FILES |-> MAX_FILES_PER_PROJECT]
    /\ tree = <<>>
    /\ spc = "idle"
    /\ scanNo = 0
    /\ dir = 0
    /\ filenames = <<>>
    /\ found = <<>>
    /\ count = 0
    /\ sized = {}
    /\ hashed = {}
    /\ firstScan = <<>>

\* no chunking is running; the chunker is the one built with no arguments
ChunkIdle ==
    /\ inText = <<>>
    /\ inType = ".py"
    /\ chunker = [chunk_size |-> CHUNK_SIZE, chunk_overlap |-> CHUNK_OVERLAP]
    /\ cpc = "idle"
    /\ out = <<>>

Projects == {1, 2}

\* no project is being chunked; every RAGConfig holds the defaults
ConfigIdle ==
    /\ rag_config = [p \in Projects |->
                        [chunk_size |-> CHUNK_SIZE, chunk_overlap |-> CHUNK_OVERLAP]]
    /\ pchunks = [p \in Projects |-> <<>>]
    /\ pindexed = {}

\* the project exists, with its RAGConfig and its default session, and no
\* create_project or delete_project is running
ProjectIdle ==
    /\ projectRow = TRUE
    /\ configRow = TRUE
    /\ sessionRows = {1}
    /\ kpc = "idle"
    /\ dpc = "idle"
    /\ kruns = 0

\* the connection is open and nothing has been received
ChatIdle ==
    /\ text_data = ""
    /\ wspc = "idle"
    /\ message_text = <<>>
    /\ response = ""
    /\ frames = <<>>
    /\ calls = 0
    /\ saved = 0
    /\ chatMessages = 0
    /\ received = 0

ExtIdle == ConfigIdle /\ ProjectIdle /\ ChatIdle

UtilIdle == ScanIdle /\ ChunkIdle /\ ExtIdle

Init == InitIndex /\ RetrieveIdle /\ UtilIdle

(***************************************************************************)
(* Environment                                                             *)
(***************************************************************************)
\* the folder's content changes (at most once between two scans)
FsChange ==
    /\ UNCHANGED <<retVars, utilVars>>
    /\ ~dirty
    /\ \E f \in Folders \ {fs} : fs' = f
    /\ dirty' = TRUE
    /\ UNCHANGED <<fileRows, chunkRows, project, nextId, runs, faults, workerVars,
                   pre, failed, faulty, produced, dupRejected, prevRun, sameAsPrev,
                   observed>>

\* a database write inside the per-file try block raises (sqlite "database is
\* locked", lost connection, ...)
FaultChoices == IF faults < MaxFaults THEN BOOLEAN ELSE {FALSE}

(***************************************************************************)
(* ProjectViewSet._index_project_files, one step per database call         *)
(***************************************************************************)
histVars == <<pre, failed, faulty, produced, dupRejected, prevRun, sameAsPrev, dirty,
              observed>>

\* the file the request is indexing
CurFile(w) == files[w][cur[w]]

\* move on to file n of the scan result, or to the counters after the last
Advance(w, n) ==
    /\ cur' = [cur EXCEPT ![w] = n]
    /\ pc' = [pc EXCEPT ![w] = IF n > Len(files[w]) THEN "finish" ELSE "file"]

on_file_error_break(w) == Len(files[w]) + 1

\* except Exception: log, continue with the next file
on_file_error(w) == cur[w] + 1

\* the handler of a per-file exception; fault: the database raised it
FileError(w, fault) ==
    /\ failed' = [failed EXCEPT ![w] = @ \cup {CurFile(w).relative_path}]
    /\ faulty' = [faulty EXCEPT ![w] = @ \/ fault]
    /\ faults' = IF fault THEN faults + 1 ELSE faults
    /\ Advance(w, on_file_error(w))

ScanRaises_afterClear(w) ==
    /\ pc' = [pc EXCEPT ![w] = "raised"]
    /\ fileRows' = {}
    /\ chunkRows' = {}
    /\ UNCHANGED <<project, files, sameAsPrev>>

\* get_files_from_folder raises FileNotFoundError before anything is written
ScanRaises(w) ==
    /\ pc' = [pc EXCEPT ![w] = "raised"]
    /\ UNCHANGED <<fileRows, chunkRows, project, files, sameAsPrev>>

\* reindex_files: get_object(), then the scan of the project folder
Scan(w) ==
    /\ UNCHANGED <<retVars, utilVars>>
    /\ pc[w] = "idle"
    /\ runs < MaxRuns
    /\ runs' = runs + 1
    /\ pre' = [pre EXCEPT ![w] = [view |-> StoredView, project |-> project,
                                  exists |-> fs.exists]]
    /\ failed' = [failed EXCEPT ![w] = {}]
    /\ faulty' = [faulty EXCEPT ![w] = FALSE]
    /\ dirty' = FALSE
    /\ IF fs.exists
       THEN /\ files' = [files EXCEPT ![w] = get_files_from_folder(fs)]
            /\ pc' = [pc EXCEPT ![w] = "clear"]
            /\ sameAsPrev' = (prevRun.valid /\ ~dirty)
            /\ UNCHANGED <<fileRows, chunkRows, project>>
       ELSE ScanRaises(w)
    /\ UNCHANGED <<fs, nextId, faults, cur, file_index, chunks, idx, file_count,
                   produced, dupRejected, prevRun, observed>>

Clear_skipped(w) ==
    /\ UNCHANGED <<retVars, utilVars>>
    /\ pc[w] = "clear"
    /\ file_count' = [file_count EXCEPT ![w] = 0]
    /\ Advance(w, 1)
    /\ UNCHANGED <<fs, fileRows, chunkRows, project, nextId, runs, faults, files,
                   file_index, chunks, idx, histVars>>

\* project.files.all().delete(): the rows and, by cascade, their chunks
Clear(w) ==
    /\ UNCHANGED <<retVars, utilVars>>
    /\ pc[w] = "clear"
    /\ fileRows' = {}
    /\ chunkRows' = {c \in chunkRows : \A r \in fileRows : r.id # c.file_index}
    /\ file_count' = [file_count EXCEPT ![w] = 0]
    /\ Advance(w, 1)
    /\ UNCHANGED <<fs, project, nextId, runs, faults, files, file_index, chunks,
                   idx, histVars>>

\* read_file_content, FileIndex.objects.create, chunk_text
CreateFileIndex(w) ==
    /\ UNCHANGED <<retVars, utilVars>>
    /\ pc[w] = "file"
    /\ \E fault \in FaultChoices :
        LET f == CurFile(w)
            content == read_file_content(fs, f.relative_path)
            dup == \E r \in fileRows : r.file_path = f.relative_path
        IN  IF fault \/ dup
            THEN /\ FileError(w, fault)
                 /\ dupRejected' = (dupRejected \/ ~fault)
                 /\ UNCHANGED <<fileRows, nextId, file_index, chunks, idx, produced>>
            ELSE /\ fileRows' = fileRows \cup
                        {[id |-> nextId, file_path |-> f.relative_path,
                          content_hash |-> f.hash, chunk_count |-> 0]}
                 /\ nextId' = nextId + 1
                 /\ file_index' = [file_index EXCEPT ![w] = nextId]
                 /\ chunks' = [chunks EXCEPT ![w] = IndexChunks(content)]
                 /\ idx' = [idx EXCEPT ![w] = 0]
                 /\ produced' = produced @@ (nextId :> Len(IndexChunks(content)))
                 /\ pc' = [pc EXCEPT ![w] = "chunk"]
                 /\ UNCHANGED <<faults, cur, failed, faulty, dupRejected>>
    /\ UNCHANGED <<fs, chunkRows, project, runs, files, file_count, pre, prevRun,
                   sameAsPrev, dirty, observed>>

\* TextChunk.objects.create for chunk idx of the file
CreateTextChunk(w) ==
    /\ UNCHANGED <<retVars, utilVars>>
    /\ pc[w] = "chunk"
    /\ \E fault \in FaultChoices :
        LET parent == \E r \in fileRows : r.id = file_index[w]
            dup == \E c \in chunkRows :
                       c.file_index = file_index[w] /\ c.chunk_index = idx[w]
        IN  IF fault \/ ~parent \/ dup
            THEN /\ FileError(w, fault)
                 /\ dupRejected' = (dupRejected \/ (~fault /\ parent /\ dup))
                 /\ UNCHANGED <<chunkRows, idx>>
            ELSE /\ chunkRows' = chunkRows \cup
                        {[file_index |-> file_index[w], chunk_index |-> idx[w],
                          content |-> chunks[w][idx[w] + 1]]}
                 /\ idx' = [idx EXCEPT ![w] = @ + 1]
                 /\ pc' = [pc EXCEPT ![w] =
                              IF idx[w] + 1 = Len(chunks[w]) THEN "save" ELSE "chunk"]
                 /\ UNCHANGED <<faults, cur, failed, faulty, dupRejected>>
    /\ UNCHANGED <<fs, fileRows, project, nextId, runs, files, file_index, chunks,
                   file_count, pre, produced, prevRun, sameAsPrev, dirty, observed>>

\* file_index.chunk_count = len(chunks); file_index.save(); file_count += 1
\* save() updates the row and, when no row has this key any more, inserts it
SaveFileIndex(w) ==
    /\ UNCHANGED <<retVars, utilVars>>
    /\ pc[w] = "save"
    /\ \E fault \in FaultChoices :
        LET f == CurFile(w)
            present == \E r \in fileRows : r.id = file_index[w]
            dup == \E r \in fileRows :
                       r.id # file_index[w] /\ r.file_path = f.relative_path
            row == [id |-> file_index[w], file_path |-> f.relative_path,
                    content_hash |-> f.hash, chunk_count |-> Len(chunks[w])]
        IN  IF fault \/ (~present /\ dup)
            THEN /\ FileError(w, fault)
                 /\ dupRejected' = (dupRejected \/ ~fault)
                 /\ UNCHANGED <<fileRows, file_count>>
            ELSE /\ fileRows' = {r \in fileRows : r.id # file_index[w]} \cup {row}
                 /\ file_count' = [file_count EXCEPT ![w] = @ + 1]
                 /\ Advance(w, cur[w] + 1)
                 /\ UNCHANGED <<faults, failed, faulty, dupRejected>>
    /\ UNCHANGED <<fs, chunkRows, project, nextId, runs, files, file_index, chunks,
                   idx, pre, produced, prevRun, sameAsPrev, dirty, observed>>

\* project.total_files = file_count; project.last_indexed = now; project.save()
Finish(w) ==
    /\ UNCHANGED <<retVars, utilVars>>
    /\ pc[w] = "finish"
    /\ project' = [total_files |-> file_count[w], last_indexed |-> runs]
    /\ pc' = [pc EXCEPT ![w] = "done"]
    /\ UNCHANGED <<fs, fileRows, chunkRows, nextId, runs, faults, files, cur,
                   file_index, chunks, idx, file_count, histVars>>

\* what a completed reindex leaves: the count and the chunks stored per path
RunResult(w) ==
    [valid |-> TRUE,
     file_count |-> file_count[w],
     files |-> {<<r.file_path, Cardinality(ChunksOfRow(r.id))>> : r \in fileRows},
     clean |-> ~faulty[w]]

\* reindex_files answers: the serialized project, or the error
Return(w) ==
    /\ UNCHANGED <<retVars, utilVars>>
    /\ pc[w] \in {"done", "raised"}
    /\ prevRun' = IF pc[w] = "done" THEN RunResult(w) ELSE NoRun
    /\ pc' = [pc EXCEPT ![w] = "idle"]
    /\ UNCHANGED <<fs, fileRows, chunkRows, project, nextId, runs, faults, files,
                   cur, file_index, chunks, idx, file_count, pre, failed, faulty,
                   produced, dupRejected, sameAsPrev, dirty, observed>>

\* the listing a retrieval reads: every chunk of the project with its file
ChunkListing ==
    {[file_path |-> r.file_path, chunk_index |-> c.chunk_index, content |-> c.content] :
        <<r, c>> \in {x \in fileRows \X chunkRows : x[1].id = x[2].file_index}}

\* a concurrent retrieval lists the project's chunks
ListChunks ==
    /\ UNCHANGED <<retVars, utilVars>>
    /\ observed' = ChunkListing
    /\ UNCHANGED <<fs, fileRows, chunkRows, project, nextId, runs, faults, workerVars,
                   pre, failed, faulty, produced, dupRejected, prevRun, sameAsPrev,
                   dirty>>

Reindex(w) ==
    \/ Scan(w)
    \/ Clear(w)
    \/ CreateFileIndex(w)
    \/ CreateTextChunk(w)
    \/ SaveFileIndex(w)
    \/ Finish(w)
    \/ Return(w)

Next ==
    \/ Reindex(1)
    \/ FsChange

Spec == Init /\ [][Next]_vars

\* one reindex request and a concurrent retrieval's listing
NextRead ==
    \/ Reindex(1)
    \/ ListChunks

SpecRead == Init /\ [][NextRead]_vars

\* two reindex requests of the same project
NextConc == \E w \in Workers : Reindex(w)

SpecConc == Init /\ [][NextConc]_vars

(***************************************************************************)
(* Properties of reindex                                                   *)
(***************************************************************************)
\* the request is inside _index_project_files, past the scan
InProgress(w) == pc[w] \in {"clear", "file", "chunk", "save", "finish"}

\* the chunk listing of a stored view
ListingOf(view) ==
    UNION {{[file_path |-> v.file_path, chunk_index |-> c.chunk_index,
             content |-> c.content] : c \in v.chunks} : v \in view}

\* every chunk the chunker produced for the row is stored
Complete(r) ==
    {c.chunk_index : c \in ChunksOfRow(r.id)} = 0..(produced[r.id] - 1)

\* C1: once a reindex has started, the project's stored files and chunks are
\* either exactly the set stored before it began or exactly the complete set
\* its scan produces; never an empty or partly rebuilt set.
C1_ReindexAtomic ==
    \A w \in Workers :
        pc[w] # "idle" => StoredView \in {pre[w].view, NewView(files[w])}

\* C2: a listing of the project's chunks taken while a reindex is in progress,
\* for a project that had chunks before and whose folder still yields chunks,
\* is never empty and never a partly cleared index.
C2_ReaderNeverSeesCleared ==
    [][(/\ ListChunks
        /\ InProgress(1)
        /\ ListingOf(pre[1].view) # {}
        /\ ListingOf(NewView(files[1])) # {})
       => (/\ observed' # {}
           /\ observed' \in {ListingOf(pre[1].view), ListingOf(NewView(files[1]))})]_vars

\* C3: after reindex returns, every stored IndexedFile has all the chunks the
\* chunker produced for it, whatever per-file error occurred.
C3_NoPartialFile ==
    \A w \in Workers :
        pc[w] = "done" => \A r \in fileRows : Complete(r)

\* C4: a failure on one scanned file does not abort the reindex: it never ends
\* in an exception, every scanned file that did not fail is stored with all
\* its chunks, and the project counters are updated.
C4_FileErrorAbsorbed ==
    /\ pc[1] = "raised" => failed[1] = {}
    /\ pc[1] = "done" =>
        /\ \A j \in 1..Len(files[1]) :
              files[1][j].relative_path \notin failed[1]
              => \E r \in fileRows :
                    /\ r.file_path = files[1][j].relative_path
                    /\ r.chunk_count = produced[r.id]
                    /\ Complete(r)
        /\ file_count[1] = Len(files[1]) - Cardinality(failed[1])
        /\ project = [total_files |-> file_count[1], last_indexed |-> runs]

\* a file failed, the file after it was indexed, and the reindex completed
C4_Witness ==
    /\ pc[1] = "done"
    /\ Len(files[1]) = 2
    /\ failed[1] = {files[1][1].relative_path}
    /\ file_count[1] = 1

\* C5: when the root folder is missing, reindex raises NotFound and leaves the
\* stored files and chunks, the file count and the timestamp as they were.
C5_NotFoundKeepsStore ==
    /\ (pc[1] # "idle" /\ ~pre[1].exists) => pc[1] = "raised"
    /\ pc[1] = "raised" =>
        /\ ~pre[1].exists
        /\ StoredView = pre[1].view
        /\ project = pre[1].project

\* the folder of an indexed project is gone and reindex has raised
C5_Witness ==
    /\ pc[1] = "raised"
    /\ \E v \in pre[1].view : v.chunks # {}
    /\ project.total_files > 0

\* the second of two successive reindexes with no folder change has completed
TwiceUnchanged == pc[1] = "done" /\ sameAsPrev /\ ~dirty

SameResult ==
    /\ RunResult(1).file_count = prevRun.file_count
    /\ RunResult(1).files = prevRun.files

C7_NoDuplicateRejected == ~dupRejected

(***************************************************************************)
(* Retrieval: ChatSessionViewSet._get_context_for_query and                *)
(* _get_context_by_keywords.  A text is a sequence of characters, an       *)
(* embedding a sequence of integers, a semantic score the signed square of *)
(* the cosine as a fraction (it orders as the cosine does), a lexical      *)
(* score a count over 1.                                                   *)
(***************************************************************************)
Queries == {<<"a">>, <<"A", "b">>, <<"b", " ", "a">>, <<"c">>}

ChunkTexts == {<<"a">>, <<"A", "b">>, <<"B", " ", "c">>}

\* similarity_threshold: the RAGConfig default, the 0.3 used without a config,
\* a negative value and 1.0 (the field is a FloatField without validators)
Thresholds == {<<1, 2>>, <<3, 10>>, <<-1, 10>>, <<1, 1>>}

\* what the provider may answer; <<1>> has another dimension, <<0, 0>> no magnitude
Vectors == {<<1>>, <<0, 0>>, <<1, 0>>, <<1, 1>>, <<-1, 0>>}

\* row j of a listing: two files named a.py, ordered by chunk_index
ChunkRow(text, j) ==
    [content |-> text, file |-> "a.py", chunk_index |-> (j - 1) \div 2]

StoredLists ==
    UNION {{[j \in 1..n |-> ChunkRow(t[j], j)] : t \in [1..n -> ChunkTexts]} :
              n \in 0..MaxStored}

Lower(c) ==
    CASE c = "A" -> "a" [] c = "B" -> "b" [] c = "O" -> "o" [] c = "P" -> "p"
      [] c = "S" -> "s" [] c = "Y" -> "y" [] OTHER -> c

\* str.lower()
lower(text) == [j \in 1..Len(text) |-> Lower(text[j])]

IsWordChar(c) == c # " "

\* set(re.findall(r'\b\w+\b', text)): the maximal runs of word characters
Words(text) ==
    {SubSeq(text, a, b) : <<a, b>> \in
        {x \in (1..Len(text)) \X (1..Len(text)) :
            /\ x[1] <= x[2]
            /\ \A j \in x[1]..x[2] : IsWordChar(text[j])
            /\ (x[1] = 1 \/ ~IsWordChar(text[x[1] - 1]))
            /\ (x[2] = Len(text) \/ ~IsWordChar(text[x[2] + 1]))}}

\* kw in text
Contains(text, kw) ==
    \E a \in 1..(Len(text) - Len(kw) + 1) : SubSeq(text, a, a + Len(kw) - 1) = kw

\* s[:n]
Take(s, n) == SubSeq(s, 1, IF n < Len(s) THEN n ELSE Len(s))

\* a <= b for scores
ScoreLeq(a, b) == a[1] * b[2] <= b[1] * a[2]

InsertDesc_beforeTies(sorted, x) ==
    LET n == Cardinality({j \in 1..Len(sorted) : ~ScoreLeq(sorted[j].score, x.score)})
    IN  SubSeq(sorted, 1, n) \o <<x>> \o SubSeq(sorted, n + 1, Len(sorted))

\* x put behind the results that score at least as much
InsertDesc(sorted, x) ==
    LET n == Cardinality({j \in 1..Len(sorted) : ScoreLeq(x.score, sorted[j].score)})
    IN  SubSeq(sorted, 1, n) \o <<x>> \o SubSeq(sorted, n + 1, Len(sorted))

SortDesc_unsorted(s) == s

RECURSIVE SortDesc(_)
\* sort(key=score, reverse=True): descending, equal scores keep their order
SortDesc(s) ==
    IF s = <<>> THEN <<>>
    ELSE InsertDesc(SortDesc(SubSeq(s, 1, Len(s) - 1)), s[Len(s)])

RECURSIVE Distinct(_)
\* .distinct(): a row equal to an earlier one is dropped
Distinct(s) ==
    IF s = <<>> THEN <<>>
    ELSE LET front == Distinct(SubSeq(s, 1, Len(s) - 1)) IN
         IF \E j \in 1..Len(front) : front[j] = s[Len(s)]
         THEN front ELSE Append(front, s[Len(s)])

RECURSIVE KeepScored(_, _)
\* the loop of _get_context_by_keywords: the rows with a keyword, scored
KeepScored(rows, keywords) ==
    IF rows = <<>> THEN <<>>
    ELSE LET row == Head(rows)
             score == Cardinality({kw \in keywords : Contains(lower(row.content), kw)})
             rest == KeepScored(Tail(rows), keywords)
         IN  IF score > 0
             THEN <<[text |-> row.content, file |-> row.file, score |-> <<score, 1>>]>>
                  \o rest
             ELSE rest

_get_context_by_keywords(stored, q, k) ==
    LET keywords == Words(lower(q))
        rows == Take(Distinct(stored), k * 2)
    IN  Take(SortDesc(KeepScored(rows, keywords)), k)

Dot(a, b) ==
    LET RECURSIVE Sum(_)
        Sum(j) == IF j = 0 THEN 0 ELSE a[j] * b[j] + Sum(j - 1)
    IN  Sum(Len(a))

Sign(x) == IF x > 0 THEN 1 ELSE IF x < 0 THEN -1 ELSE 0

\* the cosine of a and b as the fraction sign(dot) * dot^2 / (|a|^2 * |b|^2)
Similarity(a, b) == <<Sign(Dot(a, b)) * Dot(a, b) * Dot(a, b), Dot(a, a) * Dot(b, b)>>

\* VectorStore._cosine_similarity: 0.0 for an empty, mismatched or zero vector
_cosine_similarity(a, b) ==
    IF a = <<>> \/ b = <<>> \/ Len(a) # Len(b) THEN <<0, 1>>
    ELSE IF Dot(a, a) = 0 \/ Dot(b, b) = 0 THEN <<0, 1>>
    ELSE Similarity(a, b)

AboveThreshold_orEqual(sim, t) ==
    sim[1] * t[2] * t[2] >= Sign(t[1]) * t[1] * t[1] * sim[2]

\* similarity > similarity_threshold, the threshold t a fraction of integers
AboveThreshold(sim, t) ==
    sim[1] * t[2] * t[2] > Sign(t[1]) * t[1] * t[1] * sim[2]

InitRetrieve ==
    /\ fs = [exists |-> FALSE, entries |-> <<>>]
    /\ InitIndex
    /\ UtilIdle
    /\ rStored \in StoredLists
    /\ query \in Queries
    /\ top_k \in 1..MaxTopK
    /\ threshold \in Thresholds
    /\ rpc = "start"
    /\ qemb = <<>>
    /\ pos = 0
    /\ results = <<>>
    /\ result = <<>>
    /\ chunkCalls = 0
    /\ chunkFailed = FALSE
    /\ lastSim = <<>>

\* what OllamaService.get_embedding returns: [] on any failure, else the vector
Embeddings == {<<>>} \cup Vectors

query_unavailable_ignored(e) == FALSE

\* if not query_embedding
query_unavailable(e) == e = <<>>

\* get_embedding(query), then the keyword search when it gave nothing
EmbedQuery ==
    /\ rpc = "start"
    /\ \E e \in Embeddings :
        IF query_unavailable(e)
        THEN /\ result' = _get_context_by_keywords(rStored, query, top_k)
             /\ rpc' = "returned"
             /\ UNCHANGED <<qemb, pos>>
        ELSE /\ qemb' = e
             /\ pos' = 1
             /\ rpc' = "scoring"
             /\ UNCHANGED result
    /\ UNCHANGED <<rStored, query, top_k, threshold, results, chunkCalls, chunkFailed,
                   lastSim>>
    /\ UNCHANGED <<idxVars, utilVars>>

\* one turn of the loop over all_chunks: embed the chunk, score it, keep it
ScoreChunk ==
    /\ rpc = "scoring"
    /\ pos <= Len(rStored)
    /\ \E e \in Embeddings :
        LET chunk == rStored[pos]
            raises == e # <<>> /\ Len(e) # Len(qemb)
            kept == /\ e # <<>>
                    /\ ~raises
                    /\ Dot(qemb, qemb) > 0
                    /\ Dot(e, e) > 0
                    /\ AboveThreshold(Similarity(qemb, e), threshold)
        IN  /\ results' = IF kept
                          THEN Append(results,
                                      [text |-> chunk.content, file |-> chunk.file,
                                       score |-> Similarity(qemb, e)])
                          ELSE results
            /\ chunkFailed' = (chunkFailed \/ e = <<>> \/ raises)
            /\ lastSim' = IF e # <<>> /\ ~raises /\ Dot(qemb, qemb) > 0 /\ Dot(e, e) > 0
                          THEN Similarity(qemb, e)
                          ELSE <<>>
    /\ chunkCalls' = chunkCalls + 1
    /\ pos' = pos + 1
    /\ UNCHANGED <<rStored, query, top_k, threshold, rpc, qemb, result>>
    /\ UNCHANGED <<idxVars, utilVars>>

ReturnSemantic_failsOnEmpty ==
    /\ rpc = "scoring"
    /\ pos > Len(rStored)
    /\ result' = IF results = <<>>
                 THEN <<[text |-> <<>>, file |-> "error", score |-> <<0, 1>>]>>
                 ELSE Take(SortDesc(results), top_k)
    /\ rpc' = "returned"
    /\ UNCHANGED <<rStored, query, top_k, threshold, qemb, pos, results, chunkCalls,
                   chunkFailed, lastSim>>
    /\ UNCHANGED <<idxVars, utilVars>>

\* results.sort(key=score, reverse=True); return results[:top_k]
ReturnSemantic ==
    /\ rpc = "scoring"
    /\ pos > Len(rStored)
    /\ result' = Take(SortDesc(results), top_k)
    /\ rpc' = "returned"
    /\ UNCHANGED <<rStored, query, top_k, threshold, qemb, pos, results, chunkCalls,
                   chunkFailed, lastSim>>
    /\ UNCHANGED <<idxVars, utilVars>>

NextRetrieve ==
    \/ EmbedQuery
    \/ ScoreChunk
    \/ ReturnSemantic

SpecRetrieve == InitRetrieve /\ [][NextRetrieve]_vars

(***************************************************************************)
(* Properties of retrieval                                                 *)
(***************************************************************************)
\* C8: whichever path answers, the returned list has at most top_k entries
\* and its scores never increase from one entry to the next.
C8_BoundedSorted ==
    rpc = "returned" =>
        /\ Len(result) <= top_k
        /\ \A j \in 1..(Len(result) - 1) : ScoreLeq(result[j + 1].score, result[j].score)

\* the semantic path kept more than top_k chunks, the best of them not first
C8_Witness ==
    /\ rpc = "returned"
    /\ qemb # <<>>
    /\ Len(results) > top_k
    /\ Len(result) = 2
    /\ ~ScoreLeq(results[2].score, results[1].score)
    /\ ~ScoreLeq(result[1].score, result[2].score)

\* C9: when the query embedding cannot be obtained, the provider is called
\* for no chunk and the keyword search's result is returned.
C9_UnavailableFallsBack ==
    (rpc # "start" /\ qemb = <<>>) =>
        /\ rpc = "returned"
        /\ chunkCalls = 0
        /\ result = _get_context_by_keywords(rStored, query, top_k)

\* the provider was down and the keyword search found chunks
C9_Witness ==
    /\ rpc = "returned"
    /\ qemb = <<>>
    /\ Len(rStored) = MaxStored
    /\ result # <<>>

\* C10: when the query embedding was obtained and a chunk's embedding or
\* scoring fails, the keyword search's result is returned.
C10_MidwayFailureFallsBack ==
    (rpc = "returned" /\ qemb # <<>> /\ chunkFailed) =>
        result = _get_context_by_keywords(rStored, query, top_k)

\* C11: when the query embedding was obtained, every chunk was scored without
\* an error and none scored above the threshold, the keyword search's result
\* is returned.
C11_InconclusiveFallsBack ==
    (rpc = "returned" /\ qemb # <<>> /\ ~chunkFailed /\ results = <<>>) =>
        result = _get_context_by_keywords(rStored, query, top_k)

\* C12: a retrieval over a project with no stored chunk returns the empty
\* list, on the semantic path and on the keyword path alike.
C12_NoChunksEmptyResult ==
    (rpc = "returned" /\ rStored = <<>>) => result = <<>>

\* the provider answered the query and the project has no chunk
C12_Witness ==
    /\ rpc = "returned"
    /\ rStored = <<>>
    /\ qemb # <<>>
    /\ chunkCalls = 0

\* the number of distinct lower-cased words of q found in the lower-cased text
LexScore(q, text) ==
    Cardinality({kw \in Words(lower(q)) : Contains(lower(text), kw)})

\* C13: on the keyword path a stored chunk with a positive score is absent
\* from the result only if top_k chunks scoring at least as much are present.
C13_LexicalScoresEveryChunk ==
    (rpc = "returned" /\ qemb = <<>>) =>
        \A j \in 1..Len(rStored) :
            LexScore(query, rStored[j].content) > 0 =>
                \/ \E i \in 1..Len(result) : result[i].text = rStored[j].content
                \/ /\ Len(result) = top_k
                   /\ \A i \in 1..Len(result) :
                          result[i].score[1] >= LexScore(query, rStored[j].content)

\* C14: the cosine of two vectors is 0.0 when one has no magnitude or their
\* dimensions differ; in a retrieval whose query vector has no magnitude every
\* chunk embedded in the same dimension scores 0.0, so each is kept when 0.0
\* exceeds the threshold.
C14_ZeroSimilarity ==
    /\ \A a \in Vectors, b \in Vectors :
          (Dot(a, a) = 0 \/ Dot(b, b) = 0 \/ Len(a) # Len(b))
          => _cosine_similarity(a, b) = <<0, 1>>
    /\ (/\ rpc = "returned"
        /\ qemb # <<>>
        /\ Dot(qemb, qemb) = 0
        /\ ~chunkFailed
        /\ AboveThreshold(<<0, 1>>, threshold))
       => Len(results) = Len(rStored)

(***************************************************************************)
(* FileScanner.get_files_from_folder, one step per file name.  A file name *)
(* is a sequence of characters, a size is in MB, a directory is the set of *)
(* its files: os.walk lists them in whatever order the filesystem yields.  *)
(* The directories of the tree are those the walk descends into (hidden    *)
(* ones, __pycache__, node_modules and venv are pruned before).            *)
(***************************************************************************)
\* entries of settings.EXCLUDED_EXTENSIONS, as characters
ExcludedChars == {<<".", "o">>, <<".", "s", "o">>, <<".", "g", "z">>}

ScanFile(d, name, size, readable) ==
    [dir |-> d, name |-> name, size |-> size, readable |-> readable]

\* the files a root directory is drawn from
RootFiles ==
    {ScanFile(".", <<"a", ".", "p", "y">>, 1, TRUE),
     ScanFile(".", <<"b", ".", "O">>, 1, TRUE),
     ScanFile(".", <<".", "s", "o">>, 1, TRUE),
     ScanFile(".", <<"c", ".", "m", "d">>, 1, TRUE),
     ScanFile(".", <<"b", "i", "g", ".", "p", "y">>, 11, TRUE),
     ScanFile(".", <<"e", ".", "p", "y">>, 1, FALSE)}

SubDir ==
    {ScanFile("sub", <<"a", ".", "p", "y">>, 1, TRUE),
     ScanFile("sub", <<"c", ".", "m", "d">>, 1, TRUE)}

Trees ==
    LET roots == {d \in SUBSET RootFiles : Cardinality(d) <= MaxDirFiles}
    IN  {<<d>> : d \in roots} \cup {<<d, SubDir>> : d \in roots}

\* FILE_WATCH_EXTENSIONS: None, or a list of extensions
AllowLists ==
    {[none |-> TRUE, ALLOWED_EXTENSIONS |-> {}],
     [none |-> FALSE, ALLOWED_EXTENSIONS |-> {<<".", "p", "y">>}],
     [none |-> FALSE, ALLOWED_EXTENSIONS |-> {<<".", "P", "Y">>, <<".", "m", "d">>}]}

ScanLimits == {1, MaxDirFiles, MAX_FILES_PER_PROJECT}

\* os.path.splitext(filename)[1]: from the last dot, unless only dots precede it
splitext(filename) ==
    LET dots == {j \in 1..Len(filename) : filename[j] = "."} IN
    IF dots = {} THEN <<>>
    ELSE LET d == CHOOSE j \in dots : \A k \in dots : k <= j IN
         IF \E j \in 1..(d - 1) : filename[j] # "."
         THEN SubSeq(filename, d, Len(filename))
         ELSE <<>>

FileScanner_is_file_allowed_caseSensitive(filename, cfg) ==
    IF cfg.none
    THEN /\ splitext(filename) \notin ExcludedChars
         /\ filename \notin ExcludedChars
    ELSE splitext(filename) \in cfg.ALLOWED_EXTENSIONS

\* FileScanner.is_file_allowed under a configuration cfg
FileScanner_is_file_allowed(filename, cfg) ==
    LET ext_lower == lower(splitext(filename)) IN
    IF cfg.none
    THEN /\ ext_lower \notin {lower(e) : e \in ExcludedChars}
         /\ lower(filename) \notin {lower(e) : e \in ExcludedChars}
    ELSE ext_lower \in {lower(e) : e \in cfg.ALLOWED_EXTENSIONS}

\* the dict appended to files; the hash is the content's, which is the file's
scan_info(f) ==
    [relative_path |-> <<f.dir, f.name>>, name |-> f.name,
     extension |-> splitext(f.name), size |-> f.size, hash |-> <<"sha256", f>>]

\* every order a directory's files may be listed in
Orders(S) ==
    {p \in [1..Cardinality(S) -> S] : \A x \in S : \E j \in 1..Cardinality(S) : p[j] = x}

InitScan ==
    /\ fs = [exists |-> FALSE, entries |-> <<>>]
    /\ InitIndex
    /\ RetrieveIdle
    /\ ChunkIdle
    /\ ExtIdle
    /\ \E a \in AllowLists, m \in ScanLimits :
          scanCfg = [ALLOWED_EXTENSIONS |-> a.ALLOWED_EXTENSIONS, none |-> a.none,
                     MAX_FILES |-> m]
    /\ tree \in Trees
    /\ spc = "idle"
    /\ scanNo = 0
    /\ dir = 0
    /\ filenames = <<>>
    /\ found = <<>>
    /\ count = 0
    /\ sized = {}
    /\ hashed = {}
    /\ firstScan = <<>>

otherVars == <<idxVars, retVars, chunkVars, extVars>>

\* files = [], count = 0; the folder exists
StartScan ==
    /\ spc = "idle"
    /\ scanNo < 2
    /\ scanNo' = scanNo + 1
    /\ dir' = 1
    /\ filenames' = <<>>
    /\ found' = <<>>
    /\ count' = 0
    /\ sized' = {}
    /\ hashed' = {}
    /\ spc' = "dir"
    /\ UNCHANGED <<scanCfg, tree, firstScan, otherVars>>

\* os.walk yields the next directory, its file names in the listed order
WalkDir ==
    /\ spc = "dir"
    /\ IF dir > Len(tree)
       THEN /\ spc' = "return"
            /\ UNCHANGED filenames
       ELSE /\ \E order \in Orders(tree[dir]) : filenames' = order
            /\ spc' = "files"
    /\ UNCHANGED <<scanCfg, tree, scanNo, dir, found, count, sized, hashed,
                   firstScan, otherVars>>

limit_reached_never(n, cfg) == FALSE

\* count >= FileScanner.MAX_FILES
limit_reached(n, cfg) == n >= cfg.MAX_FILES

\* one turn of the loop over filenames
VisitFile ==
    /\ spc = "files"
    /\ IF filenames = <<>> \/ limit_reached(count, scanCfg)
       THEN /\ spc' = "after"
            /\ UNCHANGED <<filenames, found, count, sized, hashed>>
       ELSE LET f == Head(filenames)
                allowed == FileScanner_is_file_allowed(f.name, scanCfg)
                small == f.size <= MAX_FILE_SIZE_MB
            IN  /\ filenames' = Tail(filenames)
                /\ sized' = IF allowed THEN sized \cup {f} ELSE sized
                /\ hashed' = IF allowed /\ small THEN hashed \cup {f} ELSE hashed
                /\ IF allowed /\ small /\ f.readable
                   THEN /\ found' = Append(found, scan_info(f))
                        /\ count' = count + 1
                   ELSE UNCHANGED <<found, count>>
                /\ UNCHANGED spc
    /\ UNCHANGED <<scanCfg, tree, scanNo, dir, firstScan, otherVars>>

\* after the inner loop: leave the walk when the limit is reached
AfterDir ==
    /\ spc = "after"
    /\ IF limit_reached(count, scanCfg)
       THEN /\ spc' = "return"
            /\ UNCHANGED dir
       ELSE /\ dir' = dir + 1
            /\ spc' = "dir"
    /\ UNCHANGED <<scanCfg, tree, scanNo, filenames, found, count, sized, hashed,
                   firstScan, otherVars>>

\* return files
ReturnFiles ==
    /\ spc = "return"
    /\ firstScan' = IF scanNo = 1 THEN found ELSE firstScan
    /\ spc' = "idle"
    /\ UNCHANGED <<scanCfg, tree, scanNo, dir, filenames, found, count, sized,
                   hashed, otherVars>>

NextScan ==
    \/ StartScan
    \/ WalkDir
    \/ VisitFile
    \/ AfterDir
    \/ ReturnFiles

SpecScan == InitScan /\ [][NextScan]_vars

(***************************************************************************)
(* Properties of the scanner                                               *)
(***************************************************************************)
\* C15: two scans of the same unchanged tree return the same list, in the
\* same order and with the same fingerprints, whatever order the filesystem
\* lists the directory entries in and also when MAX_FILES cuts the walk.
C15_ScanDeterministic ==
    (scanNo = 2 /\ spc = "idle") => found = firstScan

\* the scan has left the walk at the limit, with names of the current
\* directory and a later directory unvisited
C16_Witness ==
    /\ spc = "return"
    /\ count = scanCfg.MAX_FILES
    /\ filenames # <<>>
    /\ dir < Len(tree)

\* C16: the result never holds more than MAX_FILES files, and once it holds
\* MAX_FILES no further file of the scan is size-checked or hashed.
C16_LimitAppliedMidWalk ==
    /\ [](Len(found) <= scanCfg.MAX_FILES /\ count = Len(found))
    /\ [][(spc # "idle" /\ count >= scanCfg.MAX_FILES)
           => (sized' = sized /\ hashed' = hashed)]_vars

\* the file name is denied by the configuration, compared case-insensitively
Denied(filename, cfg) ==
    IF cfg.none
    THEN \/ \E e \in ExcludedChars : lower(e) = lower(splitext(filename))
         \/ \E e \in ExcludedChars : lower(e) = lower(filename)
    ELSE \A e \in cfg.ALLOWED_EXTENSIONS : lower(e) # lower(splitext(filename))

\* C17: no file of the result is denied: without an allow-list neither its
\* extension nor its name is in the deny-list, with an allow-list its
\* extension is in the allow-list (all compared case-insensitively).
C17_DeniedFilesExcluded ==
    \A j \in 1..Len(found) : ~Denied(found[j].name, scanCfg)

\* a scan without allow-list has returned files from a directory that also
\* holds a file whose upper-case extension is in the deny-list
C17_Witness ==
    /\ spc = "return"
    /\ scanCfg.none
    /\ found # <<>>
    /\ \E f \in tree[1] : f.name = <<"b", ".", "O">>

(***************************************************************************)
(* TextChunker.  A text is a sequence of characters, "\n" the line break;  *)
(* a chunk is <<chunk_text, start_line, end_line>>.                        *)
(***************************************************************************)
Rep(c, n) == [j \in 1..n |-> c]

IsSpace(c) == c \in {" ", "\n", "\t"}

\* str.strip()
strip(s) ==
    LET keep == {j \in 1..Len(s) : ~IsSpace(s[j])} IN
    IF keep = {} THEN <<>>
    ELSE SubSeq(s, CHOOSE j \in keep : \A k \in keep : j <= k,
                   CHOOSE j \in keep : \A k \in keep : k <= j)

\* str.startswith(prefix)
startswith(s, prefix) ==
    Len(s) >= Len(prefix) /\ SubSeq(s, 1, Len(prefix)) = prefix

RECURSIVE split(_, _)
\* str.split(sep): cut at every occurrence of sep, left to right
split(s, sep) ==
    LET hits == {j \in 1..(Len(s) - Len(sep) + 1) : SubSeq(s, j, j + Len(sep) - 1) = sep} IN
    IF hits = {} THEN <<s>>
    ELSE LET j == CHOOSE h \in hits : \A k \in hits : h <= k IN
         <<SubSeq(s, 1, j - 1)>> \o split(SubSeq(s, j + Len(sep), Len(s)), sep)

RECURSIVE join(_)
\* '\n'.join(lines)
join(lines) ==
    IF lines = <<>> THEN <<>>
    ELSE IF Len(lines) = 1 THEN lines[1]
    ELSE lines[1] \o <<"\n">> \o join(Tail(lines))

\* TextChunker.__init__: a missing or zero argument takes the configured value
TextChunker(chunk_size, overlap) ==
    [chunk_size |-> IF chunk_size = 0 THEN CHUNK_SIZE ELSE chunk_size,
     chunk_overlap |-> IF overlap = 0 THEN CHUNK_OVERLAP ELSE overlap]

\* the state of a chunking loop before its first turn
LoopStart == [chunks |-> <<>>, start_line |-> 0, current_chunk |-> <<>>]

flush_dropped(st, n) == st.chunks

\* after the loop: if current_chunk: chunks.append((current_chunk.strip(), start_line, n))
flush(st, n) ==
    IF st.current_chunk # <<>>
    THEN Append(st.chunks, <<strip(st.current_chunk), st.start_line, n>>)
    ELSE st.chunks

next_start_after(i, ck) == i + 1

\* max(0, i - int(self.chunk_overlap / 10))
next_start(i, ck) ==
    IF i - ck.chunk_overlap \div 10 > 0 THEN i - ck.chunk_overlap \div 10 ELSE 0

\* one turn of the loop of _chunk_by_size, i counted from 0
size_step(st, i, line, ck) ==
    IF Len(st.current_chunk) + Len(line) < ck.chunk_size
    THEN [st EXCEPT !.current_chunk = @ \o line \o <<"\n">>]
    ELSE [chunks |-> IF st.current_chunk # <<>>
                     THEN Append(st.chunks, <<strip(st.current_chunk), st.start_line, i>>)
                     ELSE st.chunks,
          start_line |-> IF st.current_chunk # <<>> THEN next_start(i, ck)
                         ELSE st.start_line,
          current_chunk |-> line \o <<"\n">>]

RECURSIVE size_loop(_, _, _, _)
size_loop(lines, i, st, ck) ==
    IF i >= Len(lines) THEN st
    ELSE size_loop(lines, i + 1, size_step(st, i, lines[i + 1], ck), ck)

_chunk_by_size(txt, ck) ==
    LET lines == split(txt, <<"\n">>)
    IN  flush(size_loop(lines, 0, LoopStart, ck), Len(lines))

\* one turn of the loop of _chunk_by_sentences
sentence_step(st, i, raw, ck) ==
    LET sentence == strip(raw) IN
    IF Len(st.current_chunk) + Len(sentence) < ck.chunk_size
    THEN [st EXCEPT !.current_chunk = @ \o sentence \o <<".", " ">>]
    ELSE [chunks |-> IF st.current_chunk # <<>>
                     THEN Append(st.chunks, <<strip(st.current_chunk), st.start_line, i>>)
                     ELSE st.chunks,
          start_line |-> IF st.current_chunk # <<>> THEN i ELSE st.start_line,
          current_chunk |-> sentence \o <<".", " ">>]

RECURSIVE sentence_loop(_, _, _, _)
sentence_loop(sentences, i, st, ck) ==
    IF i >= Len(sentences) THEN st
    ELSE sentence_loop(sentences, i + 1, sentence_step(st, i, sentences[i + 1], ck), ck)

_chunk_by_sentences(txt, ck) ==
    LET sentences == split(txt, <<".", " ">>)
    IN  flush(sentence_loop(sentences, 0, LoopStart, ck), Len(sentences))

_is_split_point(raw, file_type) ==
    LET line == strip(raw) IN
    IF file_type = ".py"
    THEN \/ startswith(line, <<"d", "e", "f", " ">>)
         \/ startswith(line, <<"c", "l", "a", "s", "s", " ">>)
    ELSE IF file_type \in {".js", ".ts"}
    THEN \/ startswith(line, <<"f", "u", "n", "c", "t", "i", "o", "n", " ">>)
         \/ startswith(line, <<"e", "x", "p", "o", "r", "t", " ">>)
    ELSE IF file_type = ".java"
    THEN \/ startswith(line, <<"p", "u", "b", "l", "i", "c", " ">>)
         \/ startswith(line, <<"p", "r", "i", "v", "a", "t", "e", " ">>)
    ELSE FALSE

keep_always(acc, lines, start_line, end_line) ==
    Append(acc, <<strip(join(lines)), start_line, end_line>>)

\* chunks.append(...) unless the stripped text is tiny
keep_unless_tiny(acc, lines, start_line, end_line) ==
    IF Len(strip(join(lines))) > TINY_CHUNK_LEN
    THEN Append(acc, <<strip(join(lines)), start_line, end_line>>)
    ELSE acc

\* one turn of the loop of _chunk_by_semantic_units; current_chunk is a list of lines
semantic_step(st, i, line, ck, file_type) ==
    LET current == Append(st.current_chunk, line) IN
    IF Len(join(current)) >= ck.chunk_size \/ _is_split_point(line, file_type)
    THEN [chunks |-> keep_unless_tiny(st.chunks, current, st.start_line, i),
          start_line |-> i,
          current_chunk |-> <<>>]
    ELSE [st EXCEPT !.current_chunk = current]

RECURSIVE semantic_loop(_, _, _, _, _)
semantic_loop(lines, i, st, ck, file_type) ==
    IF i >= Len(lines) THEN st
    ELSE semantic_loop(lines, i + 1,
                       semantic_step(st, i, lines[i + 1], ck, file_type), ck, file_type)

\* the list `chunks` of _chunk_by_semantic_units before its return statement
semantic_units(txt, file_type, ck) ==
    LET lines == split(txt, <<"\n">>)
        st == semantic_loop(lines, 0, LoopStart, ck, file_type)
    IN  IF st.current_chunk # <<>>
        THEN keep_unless_tiny(st.chunks, st.current_chunk, st.start_line, Len(lines))
        ELSE st.chunks

\* return chunks if chunks else self._chunk_by_size(text)
_chunk_by_semantic_units(txt, file_type, ck) ==
    LET units == semantic_units(txt, file_type, ck)
    IN  IF units # <<>> THEN units ELSE _chunk_by_size(txt, ck)

CodeTypes == {".py", ".js", ".ts", ".java", ".cpp", ".go", ".rb"}

chunk_text(txt, file_type, ck) ==
    LET first == IF file_type \in CodeTypes
                 THEN _chunk_by_semantic_units(txt, file_type, ck)
                 ELSE _chunk_by_sentences(txt, ck)
    IN  IF first = <<>> THEN _chunk_by_size(txt, ck) ELSE first

\* the lines texts are built from: empty, blank, short, a Python def, two
\* sentences, and one longer than TINY_CHUNK_LEN
LineAtoms ==
    {<<>>, <<" ">>, <<"x">>, <<"d", "e", "f", " ", "f">>, <<"x", ".", " ", "x">>,
     Rep("x", TINY_CHUNK_LEN + 10)}

\* every text of 1..MaxLines such lines; the one line <<>> is the empty text
ChunkInputs ==
    UNION {{join(ls) : ls \in [1..n -> LineAtoms]} : n \in 1..MaxLines}

FileTypes == {".py", ".go", ".md"}

\* chunk_size argument: none, smaller than every non-empty line but "x",
\* between one and two long lines
ChunkSizes == {0, 2, TINY_CHUNK_LEN + 20}

\* overlap argument: none (CHUNK_OVERLAP, ten lines back), two lines back
Overlaps == {0, 25}

InitChunk ==
    /\ fs = [exists |-> FALSE, entries |-> <<>>]
    /\ InitIndex
    /\ RetrieveIdle
    /\ ScanIdle
    /\ ExtIdle
    /\ inText \in ChunkInputs
    /\ inType \in FileTypes
    /\ \E chunk_size \in ChunkSizes, overlap \in Overlaps :
          chunker = TextChunker(chunk_size, overlap)
    /\ cpc = "start"
    /\ out = <<>>

\* chunker.chunk_text(text, file_type)
ChunkText ==
    /\ cpc = "start"
    /\ out' = chunk_text(inText, inType, chunker)
    /\ cpc' = "done"
    /\ UNCHANGED <<inText, inType, chunker, idxVars, retVars, scanVars, extVars>>

\* chunker._chunk_by_size(text)
ChunkBySize ==
    /\ cpc = "start"
    /\ out' = _chunk_by_size(inText, chunker)
    /\ cpc' = "sized"
    /\ UNCHANGED <<inText, inType, chunker, idxVars, retVars, scanVars, extVars>>

\* chunker._chunk_by_semantic_units(text, file_type), for a code file type
ChunkBySemanticUnits ==
    /\ cpc = "start"
    /\ inType \in CodeTypes
    /\ out' = _chunk_by_semantic_units(inText, inType, chunker)
    /\ cpc' = "semantic"
    /\ UNCHANGED <<inText, inType, chunker, idxVars, retVars, scanVars, extVars>>

NextChunk ==
    \/ ChunkText
    \/ ChunkBySize
    \/ ChunkBySemanticUnits

SpecChunk == InitChunk /\ [][NextChunk]_vars

(***************************************************************************)
(* Properties of the chunker                                               *)
(***************************************************************************)
\* C18: chunk_text returns at least one chunk for every non-empty text,
\* whatever the file type and the chunk size.
C18_AtLeastOneChunk ==
    (cpc = "done" /\ inText # <<>>) => Len(out) >= 1

\* a Python text whose lines are all longer than the chunk size and whose
\* semantic chunks are all tiny
C18_Witness ==
    /\ cpc = "done"
    /\ inType = ".py"
    /\ chunker.chunk_size = 2
    /\ inText = join(<<<<"d", "e", "f", " ", "f">>, <<"d", "e", "f", " ", "f">>>>)
    /\ Len(out) >= 1

\* C19: chunk_text returns no chunk for the empty text, whatever the file type.
C19_EmptyTextNoChunks ==
    (cpc = "done" /\ inText = <<>>) => out = <<>>

Tiny(chunk) == Len(strip(chunk[1])) < TINY_CHUNK_LEN

\* C21 as stated: _chunk_by_semantic_units returns no chunk whose trimmed
\* content is shorter than the floor.
C21_NoTinyChunk ==
    cpc = "semantic" => \A j \in 1..Len(out) : ~Tiny(out[j])

\* C21 amended: no chunk kept by the semantic-unit pass is shorter than the
\* floor; a shorter chunk is returned only when the pass kept nothing and the
\* result is the fixed-size chunking of the text.
C21_NoTinyUnit ==
    cpc = "semantic" =>
        LET units == semantic_units(inText, inType, chunker) IN
        /\ \A j \in 1..Len(units) : ~Tiny(units[j])
        /\ units # <<>> => out = units
        /\ (\E j \in 1..Len(out) : Tiny(out[j])) =>
              (units = <<>> /\ out = _chunk_by_size(inText, chunker))

\* the pass kept a unit and discarded the tiny rest of the text
C21_Witness ==
    /\ cpc = "semantic"
    /\ inType = ".py"
    /\ Len(out) = 1
    /\ out = semantic_units(inText, inType, chunker)
    /\ out[1][3] < Len(split(inText, <<"\n">>))

\* the lines i..(j - 1) of the text, counted from 0, as chunk content
LinesOfRange(txt, i, j) == strip(join(SubSeq(split(txt, <<"\n">>), i + 1, j)))

\* C28: the content of every chunk _chunk_by_size returns is the text's lines
\* start_line..(end_line - 1), the lines it overlaps the previous chunk by
\* included.
C28_ContentMatchesRange ==
    cpc = "sized" =>
        \A j \in 1..Len(out) : out[j][1] = LinesOfRange(inText, out[j][2], out[j][3])

(***************************************************************************)
(* The chunking step of _index_project_files: two projects, each with its  *)
(* own RAGConfig, index a file of the same content and type.               *)
(***************************************************************************)
\* RAGConfig.chunk_size: the default and two values set by an administrator
ConfigSizes == {CHUNK_SIZE, 2, TINY_CHUNK_LEN + 20}

\* the content of the file: a text of fewer than MaxLines lines
ConfigInputs ==
    UNION {{join(ls) : ls \in [1..n -> LineAtoms]} : n \in 1..(MaxLines - 1)}

InitConfig ==
    /\ fs = [exists |-> FALSE, entries |-> <<>>]
    /\ InitIndex
    /\ RetrieveIdle
    /\ ScanIdle
    /\ inText \in ConfigInputs
    /\ inType \in FileTypes
    /\ chunker = [chunk_size |-> CHUNK_SIZE, chunk_overlap |-> CHUNK_OVERLAP]
    /\ cpc = "idle"
    /\ out = <<>>
    /\ rag_config \in [Projects -> {[chunk_size |-> c, chunk_overlap |-> CHUNK_OVERLAP] :
                                       c \in ConfigSizes}]
    /\ pchunks = [p \in Projects |-> <<>>]
    /\ pindexed = {}
    /\ ProjectIdle
    /\ ChatIdle

\* chunker = TextChunker()
default_chunker(p) == TextChunker(0, 0)

\* chunker = TextChunker(); chunks = chunker.chunk_text(content, extension)
IndexContent(p) ==
    /\ p \notin pindexed
    /\ pchunks' = [pchunks EXCEPT ![p] = chunk_text(inText, inType, default_chunker(p))]
    /\ pindexed' = pindexed \cup {p}
    /\ UNCHANGED <<rag_config, idxVars, retVars, scanVars, chunkVars, projVars, chatVars>>

NextConfig == \E p \in Projects : IndexContent(p)

SpecConfig == InitConfig /\ [][NextConfig]_vars

\* the chunker the project's RAGConfig asks for
configured_chunker(p) ==
    TextChunker(rag_config[p].chunk_size, rag_config[p].chunk_overlap)

\* C22: the chunks stored for a project's file are those of a chunker built
\* with the chunk size and overlap of that project's RAGConfig.
C22_ConfiguredChunkSize ==
    \A p \in pindexed :
        pchunks[p] = chunk_text(inText, inType, configured_chunker(p))

(***************************************************************************)
(* Threshold and order of the results                                      *)
(***************************************************************************)
\* the cosine sim is strictly greater than the threshold t
Exceeds(sim, t) ==
    LET left == sim[1] * t[2] * t[2]
        right == (IF t[1] < 0 THEN -1 ELSE 1) * t[1] * t[1] * sim[2]
    IN  left > right

\* the cosine sim equals the threshold t
EqualsThreshold(sim, t) ==
    sim[1] * t[2] * t[2] = (IF t[1] < 0 THEN -1 ELSE 1) * t[1] * t[1] * sim[2]

\* C23: a chunk whose cosine to the query was computed is appended to the
\* results, with that cosine as its score, exactly when the cosine is strictly
\* greater than the threshold.
C23_StrictThreshold ==
    [][(pos' = pos + 1 /\ lastSim' # <<>>) =>
          IF Exceeds(lastSim', threshold)
          THEN results' = Append(results, [text |-> rStored[pos].content,
                                           file |-> rStored[pos].file,
                                           score |-> lastSim'])
          ELSE results' = results]_vars

\* the first chunk's cosine equals the threshold and the chunk was not kept
C23_Witness ==
    /\ rpc = "scoring"
    /\ pos = 2
    /\ lastSim # <<>>
    /\ EqualsThreshold(lastSim, threshold)
    /\ results = <<>>

\* the scored chunks a path sorts: the kept ones in the order the store lists them
Kept ==
    IF qemb = <<>>
    THEN KeepScored(Take(Distinct(rStored), top_k * 2), Words(lower(query)))
    ELSE results

\* entry a of s comes before entry b: higher score, or equal score and listed earlier
Before(s, a, b) ==
    \/ ~ScoreLeq(s[a].score, s[b].score)
    \/ ScoreLeq(s[b].score, s[a].score) /\ a < b

\* s by descending score, entries of equal score in their order in s
StableDesc(s) ==
    [i \in 1..Len(s) |->
        s[CHOOSE a \in 1..Len(s) :
              Cardinality({b \in 1..Len(s) : Before(s, b, a)}) = i - 1]]

\* C24: the returned list is the first top_k of the kept chunks by descending
\* score, chunks of equal score in the order the store listed them, on the
\* semantic and on the keyword path.
C24_StableTies ==
    rpc = "returned" => result = Take(StableDesc(Kept), top_k)

\* the semantic path returned two chunks of equal score and different text,
\* behind a chunk listed after them
C24_Witness ==
    /\ rpc = "returned"
    /\ qemb # <<>>
    /\ Len(results) = 3
    /\ Len(result) >= 2
    /\ result[1] = results[3]
    /\ ScoreLeq(results[1].score, results[2].score)
    /\ ScoreLeq(results[2].score, results[1].score)
    /\ results[1].text # results[2].text

(***************************************************************************)
(* Counters of reindex                                                     *)
(***************************************************************************)
\* C25: after reindex returns, the chunk_count recorded on every stored
\* FileIndex equals the number of TextChunks stored for it, whatever per-file
\* error occurred.
C25_ChunkCountMatches ==
    pc[1] = "done" =>
        \A r \in fileRows : r.chunk_count = Cardinality(ChunksOfRow(r.id))

\* C26: after reindex completes, the project's total_files equals the number
\* of FileIndex rows stored for the project and the file_count of the run,
\* whatever per-file error occurred.
C26_TotalFilesMatches ==
    pc[1] = "done" =>
        /\ project.total_files = file_count[1]
        /\ project.total_files = Cardinality(fileRows)

(***************************************************************************)
(* ProjectViewSet.create_project and delete_project, one step per database *)
(* call, with reindex_files; one request at a time.                        *)
(***************************************************************************)
InitProject ==
    /\ InitIndex
    /\ RetrieveIdle
    /\ ScanIdle
    /\ ChunkIdle
    /\ ConfigIdle
    /\ ChatIdle
    /\ projectRow = FALSE
    /\ configRow = FALSE
    /\ sessionRows = {}
    /\ kpc = "idle"
    /\ dpc = "idle"
    /\ kruns = 0

\* a request is being served
Busy ==
    \/ pc[1] # "idle"
    \/ kpc \in {"config", "session", "index"}
    \/ dpc \in {"sessions", "files", "project"}

nonProjVars == <<retVars, scanVars, chunkVars, cfgVars, chatVars>>

idxButFaults == <<fs, fileRows, chunkRows, project, nextId, runs, workerVars, histVars>>

\* create_project: the parameter check, then Project.objects.create
CreateProjectRow ==
    /\ ~Busy
    /\ ~projectRow
    /\ runs < MaxRuns
    /\ \E given \in BOOLEAN :
        IF given
        THEN /\ projectRow' = TRUE
             /\ project' = [total_files |-> 0, last_indexed |-> runs]
             /\ kpc' = "config"
        ELSE /\ kpc' = "error"
             /\ UNCHANGED <<projectRow, project>>
    /\ dpc' = "idle"
    /\ UNCHANGED <<configRow, sessionRows, kruns, nonProjVars>>
    /\ UNCHANGED <<fs, fileRows, chunkRows, nextId, runs, faults, workerVars, histVars>>

\* RAGConfig.objects.create(project=project)
CreateRAGConfig ==
    /\ kpc = "config"
    /\ \E fault \in FaultChoices :
        IF fault
        THEN /\ kpc' = "error"
             /\ faults' = faults + 1
             /\ UNCHANGED configRow
        ELSE /\ configRow' = TRUE
             /\ kpc' = "session"
             /\ UNCHANGED faults
    /\ UNCHANGED <<projectRow, sessionRows, dpc, kruns, nonProjVars, idxButFaults>>

\* ChatSession.objects.create(project=project, title=...)
CreateChatSession ==
    /\ kpc = "session"
    /\ \E fault \in FaultChoices :
        IF fault
        THEN /\ kpc' = "error"
             /\ faults' = faults + 1
             /\ UNCHANGED <<sessionRows, kruns>>
        ELSE /\ sessionRows' = sessionRows \cup {1}
             /\ kpc' = "index"
             /\ kruns' = runs
             /\ UNCHANGED faults
    /\ UNCHANGED <<projectRow, configRow, dpc, nonProjVars, idxButFaults>>

\* self._index_project_files(project) is entered: by create_project, or by
\* reindex_files for a stored project
IndexStart ==
    /\ \/ kpc = "index" /\ runs = kruns
       \/ ~Busy /\ projectRow
    /\ Scan(1)

\* create_project answers: 201 with the project, or 400 with the error
CreateRespond ==
    /\ kpc = "index"
    /\ runs > kruns
    /\ pc[1] = "idle"
    /\ kpc' = IF prevRun.valid THEN "done" ELSE "error"
    /\ UNCHANGED <<projectRow, configRow, sessionRows, dpc, kruns, nonProjVars, idxVars>>

\* delete_project: project = self.get_object()
DeleteStart ==
    /\ ~Busy
    /\ projectRow
    /\ dpc' = "sessions"
    /\ UNCHANGED <<projectRow, configRow, sessionRows, kpc, kruns, nonProjVars, idxVars>>

\* the except clause of delete_project: 400 with the error
DeleteError ==
    /\ dpc' = "error"
    /\ faults' = faults + 1
    /\ UNCHANGED <<projectRow, configRow, sessionRows, fileRows, chunkRows>>

\* project.chat_sessions.all().delete()
DeleteSessions ==
    /\ dpc = "sessions"
    /\ \E fault \in FaultChoices :
        IF fault THEN DeleteError
        ELSE /\ sessionRows' = {}
             /\ dpc' = "files"
             /\ UNCHANGED <<projectRow, configRow, fileRows, chunkRows, faults>>
    /\ UNCHANGED <<kpc, kruns, nonProjVars>>
    /\ UNCHANGED <<fs, project, nextId, runs, workerVars, histVars>>

DeleteFiles_noCascade ==
    /\ dpc = "files"
    /\ \E fault \in FaultChoices :
        IF fault THEN DeleteError
        ELSE /\ fileRows' = {}
             /\ dpc' = "project"
             /\ UNCHANGED <<projectRow, configRow, sessionRows, chunkRows, faults>>
    /\ UNCHANGED <<kpc, kruns, nonProjVars>>
    /\ UNCHANGED <<fs, project, nextId, runs, workerVars, histVars>>

\* project.files.all().delete(): the rows and, by cascade, their chunks
DeleteFiles ==
    /\ dpc = "files"
    /\ \E fault \in FaultChoices :
        IF fault THEN DeleteError
        ELSE /\ fileRows' = {}
             /\ chunkRows' = {c \in chunkRows : \A r \in fileRows : r.id # c.file_index}
             /\ dpc' = "project"
             /\ UNCHANGED <<projectRow, configRow, sessionRows, faults>>
    /\ UNCHANGED <<kpc, kruns, nonProjVars>>
    /\ UNCHANGED <<fs, project, nextId, runs, workerVars, histVars>>

\* project.delete(): the row and, by cascade, everything that refers to it
DeleteProjectRow ==
    /\ dpc = "project"
    /\ \E fault \in FaultChoices :
        IF fault THEN DeleteError
        ELSE /\ projectRow' = FALSE
             /\ configRow' = FALSE
             /\ sessionRows' = {}
             /\ fileRows' = {}
             /\ chunkRows' = {c \in chunkRows : \A r \in fileRows : r.id # c.file_index}
             /\ dpc' = "done"
             /\ UNCHANGED faults
    /\ UNCHANGED <<kpc, kruns, nonProjVars>>
    /\ UNCHANGED <<fs, project, nextId, runs, workerVars, histVars>>

NextProject ==
    \/ CreateProjectRow
    \/ CreateRAGConfig
    \/ CreateChatSession
    \/ IndexStart
    \/ Clear(1)
    \/ CreateFileIndex(1)
    \/ CreateTextChunk(1)
    \/ SaveFileIndex(1)
    \/ Finish(1)
    \/ Return(1)
    \/ CreateRespond
    \/ DeleteStart
    \/ DeleteSessions
    \/ DeleteFiles
    \/ DeleteProjectRow

SpecProject == InitProject /\ [][NextProject]_vars

\* every TextChunk row refers to a stored FileIndex row, and every row that
\* refers to the project has its Project row
NoOrphans ==
    /\ \A c \in chunkRows : \E r \in fileRows : r.id = c.file_index
    /\ (fileRows # {} \/ sessionRows # {} \/ configRow) => projectRow

\* C27: after any sequence of reindex and delete_project requests no chunk
\* is without its file and no file without its project, and when
\* delete_project has succeeded no FileIndex, TextChunk or ChatSession of
\* the project is left
C27_NoOrphans ==
    /\ NoOrphans
    /\ dpc = "done" => fileRows = {} /\ chunkRows = {} /\ sessionRows = {}

\* delete_project has succeeded on a project whose files had been indexed,
\* without a write error, by create_project and again by reindex_files
C27_Witness ==
    /\ dpc = "done"
    /\ ~projectRow
    /\ nextId > 1
    /\ faults = 0
    /\ runs = MaxRuns
    /\ fileRows = {}
    /\ chunkRows = {}

\* C29: when create_project answers with an error, no Project, RAGConfig or
\* ChatSession row of the request is stored
C29_FailedCreateLeavesNothing ==
    kpc = "error" => ~projectRow /\ ~configRow /\ sessionRows = {}

(***************************************************************************)
(* ChatConsumer.receive, one step per await                                *)
(***************************************************************************)
JStr(chars) == [type |-> "str", chars |-> chars]

JOther(type) == [type |-> type, chars |-> <<>>]

JDict(has, v) == [type |-> "dict", chars |-> <<>>, has |-> has, message |-> v]

\* the text frames a client sends
TextData ==
    {"", "hi", "\"hi\"", "5", "null", "[]", "{}",
     "{\"message\": \"\"}", "{\"message\": \" \"}", "{\"message\": \"hi\"}",
     "{\"message\": \" hi\\n\"}", "{\"message\": 5}", "{\"message\": null}"}

\* json.loads(text_data): the value, or JSONDecodeError
json_loads(t) ==
    CASE t = "\"hi\"" -> [ok |-> TRUE, data |-> JStr(<<"h", "i">>)]
      [] t = "5" -> [ok |-> TRUE, data |-> JOther("int")]
      [] t = "null" -> [ok |-> TRUE, data |-> JOther("null")]
      [] t = "[]" -> [ok |-> TRUE, data |-> JOther("list")]
      [] t = "{}" -> [ok |-> TRUE, data |-> JDict(FALSE, JOther("null"))]
      [] t = "{\"message\": \"\"}" -> [ok |-> TRUE, data |-> JDict(TRUE, JStr(<<>>))]
      [] t = "{\"message\": \" \"}" -> [ok |-> TRUE, data |-> JDict(TRUE, JStr(<<" ">>))]
      [] t = "{\"message\": \"hi\"}" ->
            [ok |-> TRUE, data |-> JDict(TRUE, JStr(<<"h", "i">>))]
      [] t = "{\"message\": \" hi\\n\"}" ->
            [ok |-> TRUE, data |-> JDict(TRUE, JStr(<<" ", "h", "i", "\n">>))]
      [] t = "{\"message\": 5}" -> [ok |-> TRUE, data |-> JDict(TRUE, JOther("int"))]
      [] t = "{\"message\": null}" -> [ok |-> TRUE, data |-> JDict(TRUE, JOther("null"))]
      [] OTHER -> [ok |-> FALSE, data |-> JOther("null")]

\* data.get('message', '').strip(): only a dict has get, only a str has strip
get_message_strip(data) ==
    IF data.type # "dict" THEN [raised |-> TRUE, text |-> <<>>]
    ELSE LET v == IF data.has THEN data.message ELSE JStr(<<>>) IN
         IF v.type # "str" THEN [raised |-> TRUE, text |-> <<>>]
         ELSE [raised |-> FALSE, text |-> strip(v.chars)]

\* receive up to its first send: "error", or "thinking" with the message
first_frame(t) ==
    LET j == json_loads(t) IN
    IF ~j.ok THEN [type |-> "error", text |-> <<>>]
    ELSE LET m == get_message_strip(j.data) IN
         IF m.raised \/ m.text = <<>> THEN [type |-> "error", text |-> <<>>]
         ELSE [type |-> "thinking", text |-> m.text]

InitChat ==
    /\ InitIndex
    /\ RetrieveIdle
    /\ ScanIdle
    /\ ChunkIdle
    /\ ConfigIdle
    /\ ProjectIdle
    /\ ChatIdle

nonChatVars == <<idxVars, retVars, scanVars, chunkVars, cfgVars>>

projButSessions == <<projectRow, configRow, kpc, dpc, kruns>>

\* receive: json.loads, the empty check, and the first frame
Receive ==
    /\ wspc = "idle"
    /\ received < MaxReceived
    /\ \E t \in TextData :
        LET f == first_frame(t) IN
        /\ text_data' = t
        /\ frames' = <<f.type>>
        /\ message_text' = f.text
        /\ wspc' = IF f.type = "thinking" THEN "session" ELSE "idle"
    /\ received' = received + 1
    /\ calls' = 0
    /\ saved' = 0
    /\ response' = ""
    /\ UNCHANGED <<chatMessages, sessionRows, projButSessions, nonChatVars>>

GetSession_noReturn ==
    /\ wspc = "session"
    /\ \E raises \in BOOLEAN :
        IF raises
        THEN /\ frames' = Append(frames, "error")
             /\ wspc' = "idle"
        ELSE IF 1 \notin sessionRows
        THEN /\ frames' = Append(frames, "error")
             /\ wspc' = "provider"
        ELSE /\ wspc' = "provider"
             /\ UNCHANGED frames
    /\ UNCHANGED <<text_data, message_text, response, calls, saved, chatMessages, received>>
    /\ UNCHANGED <<sessionRows, projButSessions, nonChatVars>>

\* generate_response: get_session; without a session, or when the query
\* raises, one error frame and the end
GetSession ==
    /\ wspc = "session"
    /\ \E raises \in BOOLEAN :
        IF raises \/ 1 \notin sessionRows
        THEN /\ frames' = Append(frames, "error")
             /\ wspc' = "idle"
        ELSE /\ wspc' = "provider"
             /\ UNCHANGED frames
    /\ UNCHANGED <<text_data, message_text, response, calls, saved, chatMessages, received>>
    /\ UNCHANGED <<sessionRows, projButSessions, nonChatVars>>

\* run_in_executor(_get_ai_response): the provider's answer, or the text of
\* the error it caught
GetAiResponse ==
    /\ wspc = "provider"
    /\ calls' = calls + 1
    /\ \E answered \in BOOLEAN :
        response' = IF answered THEN "answer" ELSE "Error: provider"
    /\ wspc' = "respond"
    /\ UNCHANGED <<text_data, message_text, frames, saved, chatMessages, received>>
    /\ UNCHANGED <<sessionRows, projButSessions, nonChatVars>>

\* the ai_response frame
SendAiResponse ==
    /\ wspc = "respond"
    /\ frames' = Append(frames, "ai_response")
    /\ wspc' = "save"
    /\ UNCHANGED <<text_data, message_text, response, calls, saved, chatMessages, received>>
    /\ UNCHANGED <<sessionRows, projButSessions, nonChatVars>>

\* save_message: the row is created unless the session is gone or the
\* write raises, which is only logged
SaveMessage ==
    /\ wspc = "save"
    /\ \E raises \in BOOLEAN :
        IF raises \/ 1 \notin sessionRows
        THEN UNCHANGED <<saved, chatMessages>>
        ELSE /\ saved' = saved + 1
             /\ chatMessages' = chatMessages + 1
    /\ wspc' = "idle"
    /\ UNCHANGED <<text_data, message_text, response, frames, calls, received>>
    /\ UNCHANGED <<sessionRows, projButSessions, nonChatVars>>

\* the session is deleted by another request; its messages go with it
SessionDeleted ==
    /\ 1 \in sessionRows
    /\ sessionRows' = {}
    /\ chatMessages' = 0
    /\ UNCHANGED <<text_data, wspc, message_text, response, frames, calls, saved, received>>
    /\ UNCHANGED <<projButSessions, nonChatVars>>

NextChat ==
    \/ Receive
    \/ GetSession
    \/ GetAiResponse
    \/ SendAiResponse
    \/ SaveMessage
    \/ SessionDeleted

SpecChat == InitChat /\ [][NextChat]_vars

\* json.loads raises JSONDecodeError
NonJson(t) == ~json_loads(t).ok

\* a JSON object whose message is absent or a string of white space only
EmptyMessage(t) ==
    LET j == json_loads(t) IN
    /\ j.ok
    /\ j.data.type = "dict"
    /\ \/ ~j.data.has
       \/ j.data.message.type = "str" /\ \A k \in 1..Len(j.data.message.chars) :
            IsSpace(j.data.message.chars[k])

\* JSON that is not an object, or whose message is not a string
Malformed(t) ==
    LET j == json_loads(t) IN
    /\ j.ok
    /\ \/ j.data.type # "dict"
       \/ j.data.has /\ j.data.message.type # "str"

\* one error frame, nothing else
ErrorOnly ==
    /\ frames = <<"error">>
    /\ wspc = "idle"
    /\ calls = 0
    /\ saved = 0

\* thinking, then one terminal frame; a row only after ai_response
ThinkingThenTerminal ==
    /\ Len(frames) \in {1, 2}
    /\ frames[1] = "thinking"
    /\ Len(frames) = 2 => frames[2] \in {"ai_response", "error"}
    /\ wspc = "idle" => Len(frames) = 2
    /\ saved <= 1
    /\ saved = 1 => frames = <<"thinking", "ai_response">>

\* C30 as stated: an empty or non-JSON message gets exactly one error frame,
\* no thinking frame, no provider call and no ChatMessage; every other
\* message gets one thinking frame, then one terminal frame, and a
\* ChatMessage only after ai_response
C30_FramesPerMessage ==
    received > 0 =>
        IF NonJson(text_data) \/ EmptyMessage(text_data)
        THEN ErrorOnly
        ELSE ThinkingThenTerminal

\* C30, amended: a message that is not JSON, is not an object, has a message
\* that is not a string, or has an empty message gets exactly one error
\* frame and nothing else; a message with a non-blank string gets one
\* thinking frame, then one terminal frame, and a ChatMessage only after
\* ai_response
C30_FramesPerTextMessage ==
    received > 0 =>
        IF NonJson(text_data) \/ Malformed(text_data) \/ EmptyMessage(text_data)
        THEN ErrorOnly
        ELSE ThinkingThenTerminal

\* the last frame of the bound was answered and saved, after a frame that
\* was answered with an error alone
C30_Witness ==
    /\ received = MaxReceived
    /\ wspc = "idle"
    /\ frames = <<"thinking", "ai_response">>
    /\ calls = 1
    /\ saved = 1
    /\ chatMessages = 1

====
